---- MODULE Spec2Model ----
(***************************************************************************)
(* Refund contract (contracts/Refund.sol) together with the off-chain      *)
(* Merkle commitment builder (scripts/merkle.ts, scripts/getMerkleRoot.ts).*)
(*                                                                         *)
(* The ledger is modelled at the granularity of message calls: a call to   *)
(* claimRefund or withdraw that reaches its transfer step hands control to *)
(* the recipient, whose callback may make further (nested) calls before it *)
(* returns success or failure.  A failing call is reverted: the ledger     *)
(* state goes back to what it was when that call was entered.  The owner   *)
(* is part of that state: Refund is Ownable, and the owner may hand        *)
(* ownership on or renounce it (transferOwnership, renounceOwnership).     *)
(*                                                                         *)
(* Spec is the contract on the chain, deployed with the root of the        *)
(* tests' table.  BuilderSpec is the commitment builder on its own, run    *)
(* on every table of up to MaxInvestors entries; in Spec the builder's     *)
(* variables stay idle, in BuilderSpec the contract's.                     *)
(***************************************************************************)
EXTENDS Integers, Sequences, FiniteSets, TLC

VARIABLES
    deployed,        \* TRUE once the constructor has succeeded
    owner,           \* Ownable._owner
    merkleRoot,      \* bytes32 immutable merkleRoot
    refundDeadline,  \* uint256 immutable refundDeadline
    claimed,         \* mapping(address => bool) claimed
    status,          \* ReentrancyGuard._status
    balance,         \* native-currency balance of every account and of the contract
    log,             \* the RefundClaimed and FundsWithdrawn events emitted, in order
                     \* (Ownable's OwnershipTransferred events are not recorded)
    funded,          \* history: the value the contract has taken in through receive()
    now,             \* block.timestamp
    stack,           \* calls of the contract suspended in their transfer step
    last,            \* the call that acted last and its outcome
    data,            \* off-chain: the investor table handed to getMerkle
    merkleTree,      \* off-chain: the tree built from it (its layers)
    query            \* off-chain: the last call of the builder and its result

vars == <<deployed, owner, merkleRoot, refundDeadline, claimed, status,
          balance, log, funded, now, stack, last, data, merkleTree, query>>

\* the state of the contract and of the chain
contractVars == <<deployed, owner, merkleRoot, refundDeadline, claimed, status,
                  balance, log, funded, now, stack, last>>
\* the state of the commitment builder
builderVars == <<data, merkleTree, query>>

(***************************************************************************)
(* Bounds of the model                                                     *)
(***************************************************************************)
\* decimals handed to getMerkle/getProof (18 in the scripts; amounts of
\* 10^18 exceed the integers TLC computes with)
Decimals == 1
\* seconds after the deadline that the clock may reach
MaxOver == 1
\* block.timestamp before the deployment
StartTime == 1
\* withdrawals (completed or suspended in their transfer) after which no
\* further withdraw reaches its transfer step
MaxWithdraws == 2
\* entries of the largest table handed to the commitment builder
MaxInvestors == 3

(***************************************************************************)
(* Program constants                                                       *)
(***************************************************************************)
\* uint256 public constant REFUND_PERIOD_DURATION = 90 days;
REFUND_PERIOD_DURATION == 7776000

Accounts == {"owner", "alice", "bob", "carol"}
This == "refund"

AddrId(a) ==
    CASE a = "owner" -> 1
      [] a = "alice" -> 2
      [] a = "bob"   -> 3
      [] a = "carol" -> 4

(***************************************************************************)
(* Hashing.  keccak256 is modelled as collision-free: a digest is          *)
(* represented by the (tagged) byte string it was computed from.  The      *)
(* byte-wise order of digests (Buffer.compare off-chain, < on bytes32      *)
(* on-chain) is a fixed total order unrelated to the structure of the      *)
(* preimage.                                                               *)
(***************************************************************************)
ZeroHash == <<>>

RECURSIVE Weight(_, _)
Weight(h, i) == IF i > Len(h) THEN 0 ELSE h[i] * (i + 2) + Weight(h, i + 1)

Rank(h) == Weight(h, 1) % 7

RECURSIVE LexLess(_, _)
LexLess(a, b) ==
    IF a = <<>> THEN b # <<>>
    ELSE IF b = <<>> THEN FALSE
    ELSE IF Head(a) # Head(b) THEN Head(a) < Head(b)
    ELSE LexLess(Tail(a), Tail(b))

HashLess(a, b) ==
    \/ Rank(a) < Rank(b)
    \/ Rank(a) = Rank(b) /\ LexLess(a, b)

\* keccak256(abi.encodePacked(msg.sender, _amount)) and
\* utils.solidityKeccak256(["address", "uint256"], [address, value])
generateLeaf(address, value) == <<1, AddrId(address), value>>

\* keccak256 of the concatenation of two digests
HashConcat(a, b) == <<2, Len(a)>> \o a \o b

\* mutant: the pair is hashed in the order given
HashPair_Unsorted(a, b) == HashConcat(a, b)
\* MerkleProof._hashPair and merkletreejs with sortPairs: the smaller digest first
HashPair(a, b) == IF HashLess(a, b) THEN HashConcat(a, b) ELSE HashConcat(b, a)

(***************************************************************************)
(* Commitment builder (scripts/merkle.ts).  A decimal string is modelled   *)
(* as its whole part and the sequence of its fractional digits.            *)
(***************************************************************************)
Dec(w, f) == [whole |-> w, frac |-> f]

RECURSIVE Pow10(_)
Pow10(n) == IF n = 0 THEN 1 ELSE 10 * Pow10(n - 1)

RECURSIVE TrimZeros(_)
TrimZeros(f) ==
    IF f # <<>> /\ f[Len(f)] = 0 THEN TrimZeros(SubSeq(f, 1, Len(f) - 1)) ELSE f

RECURSIVE DigitsValue(_)
DigitsValue(f) ==
    IF f = <<>> THEN 0 ELSE DigitsValue(SubSeq(f, 1, Len(f) - 1)) * 10 + f[Len(f)]

ParseError == -1

\* utils.parseUnits(value, decimals): the fraction loses its trailing zeros,
\* must then fit the decimals (otherwise parseUnits throws), and is padded
ParseUnits(value, decimals) ==
    LET f == TrimZeros(value.frac) IN
    IF Len(f) > decimals THEN ParseError
    ELSE value.whole * Pow10(decimals) + DigitsValue(f) * Pow10(decimals - Len(f))

\* mutant: an unpaired last node is hashed with itself instead of promoted
NextLayer_DuplicateOdd(nodes) ==
    [k \in 1..((Len(nodes) + 1) \div 2) |->
        IF 2 * k <= Len(nodes) THEN HashPair(nodes[2 * k - 1], nodes[2 * k])
        ELSE HashPair(nodes[2 * k - 1], nodes[2 * k - 1])]

\* one level of new MerkleTree(leaves, keccak256, { sortPairs: true }):
\* neighbours are hashed as a sorted pair, an unpaired last node is promoted
NextLayer(nodes) ==
    [k \in 1..((Len(nodes) + 1) \div 2) |->
        IF 2 * k <= Len(nodes) THEN HashPair(nodes[2 * k - 1], nodes[2 * k])
        ELSE nodes[2 * k - 1]]

RECURSIVE BuildLayers(_)
BuildLayers(nodes) ==
    IF Len(nodes) <= 1 THEN <<nodes>> ELSE <<nodes>> \o BuildLayers(NextLayer(nodes))

\* getMerkle(decimals, investors): the layers of the tree, leaves first
getMerkle(decimals, investors) ==
    BuildLayers([i \in 1..Len(investors) |->
        generateLeaf(investors[i].address, ParseUnits(investors[i].tokens, decimals))])

\* merkle.getHexRoot()
getRoot(merkle) ==
    LET top == merkle[Len(merkle)] IN IF top = <<>> THEN ZeroHash ELSE top[1]

\* position of a leaf among the leaves, 0 when it is not one of them
LeafIndex(merkle, leaf) ==
    IF \E i \in 1..Len(merkle[1]) : merkle[1][i] = leaf
    THEN CHOOSE i \in 1..Len(merkle[1]) :
            /\ merkle[1][i] = leaf
            /\ \A j \in 1..(i - 1) : merkle[1][j] # leaf
    ELSE 0

\* mutant: a node without a sibling puts itself into the proof
RECURSIVE ProofFrom_OwnNode(_, _, _)
ProofFrom_OwnNode(merkle, level, index) ==
    IF level > Len(merkle) THEN <<>>
    ELSE LET pairIndex == IF index % 2 = 0 THEN index - 1 ELSE index + 1
             here == IF pairIndex <= Len(merkle[level])
                     THEN <<merkle[level][pairIndex]>> ELSE <<merkle[level][index]>>
         IN  here \o ProofFrom_OwnNode(merkle, level + 1, (index + 1) \div 2)

RECURSIVE ProofFrom(_, _, _)
ProofFrom(merkle, level, index) ==
    IF level > Len(merkle) THEN <<>>
    ELSE LET pairIndex == IF index % 2 = 0 THEN index - 1 ELSE index + 1
             here == IF pairIndex <= Len(merkle[level])
                     THEN <<merkle[level][pairIndex]>> ELSE <<>>
         IN  here \o ProofFrom(merkle, level + 1, (index + 1) \div 2)

\* mutant: the index of an unknown leaf is used without the check
getHexProof_NoCheck(merkle, leaf) ==
    LET index == LeafIndex(merkle, leaf) IN
    ProofFrom(merkle, 1, IF index = 0 THEN 1 ELSE index)
\* merkle.getHexProof(leaf): the siblings from the leaf up; empty for an unknown leaf
getHexProof(merkle, leaf) ==
    LET index == LeafIndex(merkle, leaf) IN
    IF index = 0 THEN <<>> ELSE ProofFrom(merkle, 1, index)

\* getProof(merkle, address, value, decimals)
getProof(merkle, address, value, decimals) ==
    getHexProof(merkle, generateLeaf(address, ParseUnits(value, decimals)))

\* MerkleProof.processProof: fold the proof from the leaf with sorted pairs
RECURSIVE ProcessProof(_, _)
ProcessProof(proof, computedHash) ==
    IF proof = <<>> THEN computedHash
    ELSE ProcessProof(Tail(proof), HashPair(computedHash, Head(proof)))

\* MerkleProof.verify(proof, root, leaf)
Verify(proof, root, leaf) == ProcessProof(proof, leaf) = root

(***************************************************************************)
(* The committed table (test/Refund.ts builds it for alice, bob, carol,    *)
(* dan; the amounts are scaled down with Decimals)                         *)
(***************************************************************************)
Investors ==
    << [address |-> "alice", tokens |-> Dec(0, <<1>>)],
       [address |-> "bob",   tokens |-> Dec(0, <<2>>)],
       [address |-> "carol", tokens |-> Dec(0, <<1, 0>>)] >>

Committed == {Investors[i].address : i \in 1..Len(Investors)}

TokensOf(a) == (CHOOSE i \in 1..Len(Investors) : Investors[i].address = a)

\* ethers.utils.parseEther(amount) of each committed entry
ScaledAmounts == [a \in Committed |-> ParseUnits(Investors[TokensOf(a)].tokens, Decimals)]
AmountOf(a) == ScaledAmounts[a]

Tree == getMerkle(Decimals, Investors)

\* getProof(investor) of the tests, for each committed entry
InvestorProofs ==
    [a \in Committed |-> getProof(Tree, a, Investors[TokensOf(a)].tokens, Decimals)]
ProofOf(a) == InvestorProofs[a]

RECURSIVE SumAmounts(_)
SumAmounts(i) == IF i = 0 THEN 0 ELSE AmountOf(Investors[i].address) + SumAmounts(i - 1)

\* the sum of all committed amounts; what the deployer holds at the start
TotalCommitted == SumAmounts(Len(Investors))

(***************************************************************************)
(* Inputs of the calls                                                     *)
(***************************************************************************)
Amounts == {AmountOf(a) : a \in Committed}
Proofs == {ProofOf(a) : a \in Committed} \cup {<<>>}
Roots == {ZeroHash, getRoot(Tree)}
Deployers == {"owner"}
\* the accounts that send funds to the contract
Funders == {"owner", "alice"}
\* the accounts that call transferOwnership and renounceOwnership
Admins == {"owner", "alice"}

NOT_ENTERED == "NOT_ENTERED"
ENTERED == "ENTERED"
NoAddress == "0x0"
\* the addresses that ownership is handed to: an account, or address(0)
NewOwners == Admins \cup {NoAddress}

\* no tree has been built
NoTree == <<>>

\* no call of the builder yet
NoQuery ==
    [op |-> "none", address |-> NoAddress, value |-> Dec(0, <<>>), thrown |-> FALSE,
     proof |-> <<>>, folded |-> ZeroHash, valid |-> FALSE,
     at |-> 0, before |-> ZeroHash]

(***************************************************************************)
(* The ledger state that a revert restores                                 *)
(***************************************************************************)
\* (funded goes with it: a funding transfer made from the callback of a call
\* that fails is undone with that call)
Ledger == [claimed |-> claimed, balance |-> balance, log |-> log, status |-> status,
           owner |-> owner, funded |-> funded]

SetLedger(s) ==
    /\ claimed' = s.claimed
    /\ balance' = s.balance
    /\ log' = s.log
    /\ status' = s.status
    /\ owner' = s.owner
    /\ funded' = s.funded

\* mutant: a failing call keeps the claim flags it had set
Revert_KeepFlags(entered, reached) == [entered EXCEPT !.claimed = reached.claimed]
\* a failing require reverts the call: the ledger is again as it was when the
\* call was entered, whatever the call had reached
Revert(entered, reached) == entered

Call(op, sender, result) == [op |-> op, sender |-> sender, result |-> result]

\* mutant: a failing check returns instead of reverting, after the caller
\* has been marked
Reject_NoRevert(op, sender, msg) ==
    /\ SetLedger([Ledger EXCEPT !.claimed[sender] = TRUE])
    /\ last' = Call(op, sender, msg)
    /\ UNCHANGED <<deployed, merkleRoot, refundDeadline, now, stack, builderVars>>
\* require(cond, msg) failing before any state change
Reject(op, sender, msg) ==
    /\ SetLedger(Revert(Ledger, Ledger))
    /\ last' = Call(op, sender, msg)
    /\ UNCHANGED <<deployed, merkleRoot, refundDeadline, now, stack, builderVars>>

\* value transfer of a message call
Pay(bal, from, to, amount) ==
    [bal EXCEPT ![from] = @ - amount, ![to] = @ + amount]

\* event RefundClaimed(address indexed user, uint256 amount)
RefundClaimed(user, amount) == [name |-> "RefundClaimed", user |-> user, amount |-> amount]
\* event FundsWithdrawn(uint256 amount): it carries no address (the user field
\* is there only so that all events have one shape)
FundsWithdrawn(amount) == [name |-> "FundsWithdrawn", user |-> NoAddress, amount |-> amount]

\* number of FundsWithdrawn events in a log
Withdrawals(events) ==
    Cardinality({i \in 1..Len(events) : events[i].name = "FundsWithdrawn"})

(***************************************************************************)
(* Guards of the contract                                                  *)
(***************************************************************************)
\* mutant: the constructor accepts any root
RootNotEmpty_Missing(root) == TRUE
\* require(_merkleRoot != bytes32(0), ...)
RootNotEmpty(root) == root # ZeroHash
\* mutant: claimRefund without the nonReentrant modifier
NonReentrant_Missing(st) == TRUE
\* modifier nonReentrant: require(_status != _ENTERED, ...)
NonReentrant(st) == st # ENTERED
\* mutant: claimRefund has no time check
ClaimOpen_Always(t, deadline) == TRUE
\* mutant: the claim period ends one second early
ClaimOpen_Strict(t, deadline) == t < deadline
\* mutant: the claim period ends one second late
ClaimOpen_Late(t, deadline) == t <= deadline + 1
\* require(block.timestamp <= refundDeadline, "Refund period over")
ClaimOpen(t, deadline) == t <= deadline
\* mutant: the already-claimed check is missing
NotClaimed_Missing(flags, sender) == TRUE
\* require(!claimed[msg.sender], "Already claimed")
NotClaimed(flags, sender) == ~flags[sender]
\* mutant: the leaf is not bound to the caller
ProofValid_AnySender(proof, root, sender, amount) ==
    \E s \in Accounts : Verify(proof, root, generateLeaf(s, amount))
\* mutant: the leaf is not bound to the amount
ProofValid_AnyAmount(proof, root, sender, amount) ==
    \E m \in Amounts : Verify(proof, root, generateLeaf(sender, m))
\* require(MerkleProof.verify(_proof, merkleRoot, node), "Invalid proof")
ProofValid(proof, root, sender, amount) == Verify(proof, root, generateLeaf(sender, amount))
\* mutant: withdraw without the onlyOwner modifier
OnlyOwner_Missing(sender, o) == TRUE
\* modifier onlyOwner: require(owner() == _msgSender(), ...)
OnlyOwner(sender, o) == sender = o
\* Ownable.transferOwnership: require(newOwner != address(0), ...)
NewOwnerNotZero(newOwner) == newOwner # NoAddress
\* mutant: withdraw has no time check
WithdrawOpen_Always(t, deadline) == TRUE
\* mutant: withdraw opens at the deadline itself
WithdrawOpen_AtDeadline(t, deadline) == t >= deadline
\* require(block.timestamp > refundDeadline, "Refund period not over")
WithdrawOpen(t, deadline) == t > deadline
\* mutant: the balance check compares the wrong way round
Sufficient_Reversed(bal, amount) == bal <= amount
\* require(address(this).balance >= _amount, "Insufficient funds")
Sufficient(bal, amount) == bal >= amount

(***************************************************************************)
(* Operations                                                              *)
(***************************************************************************)
Init ==
    /\ deployed = FALSE
    /\ owner = NoAddress
    /\ merkleRoot = ZeroHash
    /\ refundDeadline = 0
    /\ claimed = [a \in Accounts |-> FALSE]
    /\ status = NOT_ENTERED
    /\ balance = [a \in Accounts \cup {This} |->
                    IF a \in Deployers THEN TotalCommitted ELSE 0]
    /\ log = <<>>
    /\ funded = 0
    /\ now = StartTime
    /\ stack = <<>>
    /\ last = [op |-> "none", sender |-> NoAddress, result |-> "none"]
    /\ data = <<>>
    /\ merkleTree = NoTree
    /\ query = NoQuery

\* constructor(bytes32 _merkleRoot) Ownable()
Constructor(sender, _merkleRoot) ==
    /\ ~deployed
    /\ IF ~RootNotEmpty(_merkleRoot)
       THEN /\ last' = Call("constructor", sender, "Merkle root cannot be empty")
            /\ UNCHANGED <<deployed, owner, merkleRoot, refundDeadline>>
       ELSE /\ deployed' = TRUE
            /\ owner' = sender
            /\ refundDeadline' = now + REFUND_PERIOD_DURATION
            /\ merkleRoot' = _merkleRoot
            /\ last' = Call("constructor", sender, "ok")
    /\ UNCHANGED <<claimed, status, balance, log, funded, now, stack, builderVars>>

\* claimRefund(_proof, _amount) up to and including the start of the transfer
ClaimRefund(sender, _proof, _amount) ==
    /\ deployed
    /\ IF ~NonReentrant(status)
         THEN Reject("claimRefund", sender, "ReentrancyGuard: reentrant call")
       ELSE IF ~ClaimOpen(now, refundDeadline)
         THEN Reject("claimRefund", sender, "Refund period over")
       ELSE IF ~NotClaimed(claimed, sender)
         THEN Reject("claimRefund", sender, "Already claimed")
       ELSE IF ~ProofValid(_proof, merkleRoot, sender, _amount)
         THEN Reject("claimRefund", sender, "Invalid proof")
       ELSE LET marked == [Ledger EXCEPT !.status = ENTERED,
                                         !.claimed[sender] = TRUE] IN
            IF balance[This] < _amount
            THEN \* the call cannot carry the value: success is false
                 /\ SetLedger(Revert(Ledger, marked))
                 /\ last' = Call("claimRefund", sender, "Transfer failed")
                 /\ UNCHANGED <<deployed, merkleRoot, refundDeadline, now, stack, builderVars>>
            ELSE \* the value moves and the recipient's code runs
                 /\ SetLedger([marked EXCEPT
                        !.balance = Pay(balance, This, sender, _amount)])
                 /\ stack' = Append(stack, [op |-> "claimRefund", sender |-> sender,
                                            amount |-> _amount, entered |-> Ledger])
                 /\ last' = Call("claimRefund", sender, "transfer")
                 /\ UNCHANGED <<deployed, merkleRoot, refundDeadline, now, builderVars>>

\* withdraw(_amount) up to and including the start of the transfer
Withdraw(sender, _amount) ==
    /\ deployed
    /\ IF ~OnlyOwner(sender, owner)
         THEN Reject("withdraw", sender, "Ownable: caller is not the owner")
       ELSE IF ~WithdrawOpen(now, refundDeadline)
         THEN Reject("withdraw", sender, "Refund period not over")
       ELSE IF ~Sufficient(balance[This], _amount)
         THEN Reject("withdraw", sender, "Insufficient funds")
       ELSE /\ Withdrawals(log) + Len(stack) < MaxWithdraws
            /\ SetLedger([Ledger EXCEPT !.balance = Pay(balance, This, sender, _amount)])
            /\ stack' = Append(stack, [op |-> "withdraw", sender |-> sender,
                                       amount |-> _amount, entered |-> Ledger])
            /\ last' = Call("withdraw", sender, "transfer")
            /\ UNCHANGED <<deployed, merkleRoot, refundDeadline, now, builderVars>>

\* mutant: the events record one unit less than the transfers paid
Complete_Short(frame, reached) ==
    IF frame.op = "claimRefund"
    THEN [reached EXCEPT !.log = Append(@, RefundClaimed(frame.sender, frame.amount - 1)),
                         !.status = NOT_ENTERED]
    ELSE [reached EXCEPT !.log = Append(@, FundsWithdrawn(frame.amount - 1))]
\* the ledger after the transfer of a suspended call has returned success
Complete(frame, reached) ==
    IF frame.op = "claimRefund"
    THEN [reached EXCEPT !.log = Append(@, RefundClaimed(frame.sender, frame.amount)),
                         !.status = NOT_ENTERED]
    ELSE [reached EXCEPT !.log = Append(@, FundsWithdrawn(frame.amount))]

\* the recipient's code returns: (bool success,) = msg.sender.call{value: _amount}("");
\* require(success, "Transfer failed"); emit ...
TransferReturns(success) ==
    /\ stack # <<>>
    /\ LET frame == stack[Len(stack)] IN
       /\ stack' = SubSeq(stack, 1, Len(stack) - 1)
       /\ IF success
          THEN /\ SetLedger(Complete(frame, Ledger))
               /\ last' = Call(frame.op, frame.sender, "ok")
          ELSE /\ SetLedger(Revert(frame.entered, Ledger))
               /\ last' = Call(frame.op, frame.sender, "Transfer failed")
    /\ UNCHANGED <<deployed, merkleRoot, refundDeadline, now, builderVars>>

\* Ownable.transferOwnership(newOwner) onlyOwner, inherited by Refund
TransferOwnership(sender, newOwner) ==
    /\ deployed
    /\ IF ~OnlyOwner(sender, owner)
         THEN Reject("transferOwnership", sender, "Ownable: caller is not the owner")
       ELSE IF ~NewOwnerNotZero(newOwner)
         THEN Reject("transferOwnership", sender, "Ownable: new owner is the zero address")
       ELSE /\ SetLedger([Ledger EXCEPT !.owner = newOwner])
            /\ last' = Call("transferOwnership", sender, "ok")
            /\ UNCHANGED <<deployed, merkleRoot, refundDeadline, now, stack, builderVars>>

\* Ownable.renounceOwnership() onlyOwner, inherited by Refund: the contract
\* is left without an owner
RenounceOwnership(sender) ==
    /\ deployed
    /\ IF ~OnlyOwner(sender, owner)
         THEN Reject("renounceOwnership", sender, "Ownable: caller is not the owner")
       ELSE /\ SetLedger([Ledger EXCEPT !.owner = NoAddress])
            /\ last' = Call("renounceOwnership", sender, "ok")
            /\ UNCHANGED <<deployed, merkleRoot, refundDeadline, now, stack, builderVars>>

\* receive() external payable {}
Receive(sender, value) ==
    /\ deployed
    /\ balance[sender] >= value
    /\ balance' = Pay(balance, sender, This, value)
    /\ funded' = funded + value
    /\ last' = Call("receive", sender, "ok")
    /\ UNCHANGED <<deployed, owner, merkleRoot, refundDeadline, claimed, status,
                   log, now, stack, builderVars>>

\* the instants the clock may jump to: the deadline and the seconds after it
TimePoints == refundDeadline..(refundDeadline + MaxOver)

\* a later block; block.timestamp is the same throughout a transaction
Tick ==
    /\ deployed
    /\ stack = <<>>
    /\ \E t \in TimePoints : t > now /\ now' = t
    /\ UNCHANGED <<deployed, owner, merkleRoot, refundDeadline, claimed, status,
                   balance, log, funded, stack, last, builderVars>>

Next ==
    \/ \E s \in Deployers, r \in Roots : Constructor(s, r)
    \/ \E s \in Accounts, p \in Proofs, a \in Amounts : ClaimRefund(s, p, a)
    \/ \E s \in Accounts, a \in Amounts : Withdraw(s, a)
    \/ \E ok \in BOOLEAN : TransferReturns(ok)
    \/ \E s \in Admins, n \in NewOwners : TransferOwnership(s, n)
    \/ \E s \in Admins : RenounceOwnership(s)
    \/ \E s \in Funders, v \in Amounts : Receive(s, v)
    \/ Tick

Spec == Init /\ [][Next]_vars

(***************************************************************************)
(* The commitment builder on its own (scripts/merkle.ts as the tests'      *)
(* buildMerkle helper drives it): a table is handed to getMerkle, proofs   *)
(* are asked of the tree with getProof, and a proof is checked the way     *)
(* claimRefund checks it, against the root of that tree.                   *)
(***************************************************************************)
\* a decimal string with one fractional digit more than the decimals allow
TooFine == Dec(0, [i \in 1..(Decimals + 1) |-> IF i = Decimals + 1 THEN 5 ELSE 0])

\* amounts written in the tables
Tokens == {Dec(0, <<1>>), Dec(0, <<2>>), TooFine}
\* amounts asked of getProof: those of the tables and "0.10"
Values == Tokens \cup {Dec(0, <<1, 0>>)}

Entries == [address : Accounts, tokens : Tokens]

\* Record<string, string>: one entry per address, in insertion order
RECURSIVE TablesOf(_)
TablesOf(n) ==
    IF n = 0 THEN {<<>>}
    ELSE LET shorter == TablesOf(n - 1)
             longest == {t \in shorter : Len(t) = n - 1}
         IN  shorter \cup
             {Append(x[1], x[2]) : x \in
                 {y \in longest \X Entries :
                     \A i \in 1..Len(y[1]) : y[1][i].address # y[2].address}}

Tables == TablesOf(MaxInvestors)

\* utils.parseUnits throws on one of the amounts
Unparsable(value) == ParseUnits(value, Decimals) = ParseError

\* the leaf of an (address, decimal amount) pair
LeafOf(address, value) == generateLeaf(address, ParseUnits(value, Decimals))

BuilderInit ==
    /\ deployed = FALSE
    /\ owner = NoAddress
    /\ merkleRoot = ZeroHash
    /\ refundDeadline = 0
    /\ claimed = [a \in Accounts |-> FALSE]
    /\ status = NOT_ENTERED
    /\ balance = [a \in Accounts \cup {This} |->
                    IF a \in Deployers THEN TotalCommitted ELSE 0]
    /\ log = <<>>
    /\ funded = 0
    /\ now = StartTime
    /\ stack = <<>>
    /\ last = [op |-> "none", sender |-> NoAddress, result |-> "none"]
    /\ data \in Tables
    /\ merkleTree = NoTree
    /\ query = NoQuery

\* const merkleTree = merkle.getMerkle(decimals, data); parseUnits throws on
\* an amount it cannot scale and no tree is built
BuildMerkle ==
    /\ merkleTree = NoTree
    /\ query.op = "none"
    /\ IF \E i \in 1..Len(data) : Unparsable(data[i].tokens)
       THEN /\ query' = [NoQuery EXCEPT !.op = "getMerkle", !.thrown = TRUE]
            /\ UNCHANGED merkleTree
       ELSE /\ query' = [NoQuery EXCEPT !.op = "getMerkle"]
            /\ merkleTree' = getMerkle(Decimals, data)
    /\ UNCHANGED <<data, contractVars>>

\* merkle.getProof(merkleTree, address, value, decimals); parseUnits throws
\* before the tree is looked at
GetProof(address, value) ==
    /\ merkleTree # NoTree
    /\ query' =
         IF Unparsable(value)
         THEN [NoQuery EXCEPT !.op = "getProof", !.address = address,
                              !.value = value, !.thrown = TRUE]
         ELSE [NoQuery EXCEPT !.op = "getProof", !.address = address,
                              !.value = value,
                              !.proof = getProof(merkleTree, address, value, Decimals)]
    /\ UNCHANGED <<data, merkleTree, contractVars>>

\* the proof check of a claimRefund made by the address of the query with
\* the proof obtained and the scaled amount, the root being that of the tree:
\* bytes32 node = keccak256(abi.encodePacked(msg.sender, _amount));
\* MerkleProof.verify(_proof, merkleRoot, node)
VerifyProof ==
    /\ query.op = "getProof"
    /\ ~query.thrown
    /\ LET _amount == ParseUnits(query.value, Decimals) IN
       query' = [query EXCEPT
                    !.op = "verify",
                    !.folded = ProcessProof(query.proof,
                                            generateLeaf(query.address, _amount)),
                    !.valid = ProofValid(query.proof, getRoot(merkleTree),
                                         query.address, _amount)]
    /\ UNCHANGED <<data, merkleTree, contractVars>>

\* getMerkle on the same entries with the entries at i and i + 1 exchanged;
\* the query keeps the root of the tree built from the order before
Reorder(i) ==
    /\ merkleTree # NoTree
    /\ i \in 1..(Len(data) - 1)
    /\ data' = [data EXCEPT ![i] = data[i + 1], ![i + 1] = data[i]]
    /\ merkleTree' = getMerkle(Decimals, data')
    /\ query' = [NoQuery EXCEPT !.op = "getMerkle again", !.at = i,
                                 !.before = getRoot(merkleTree)]
    /\ UNCHANGED contractVars

BuilderNext ==
    \/ BuildMerkle
    \/ \E a \in Accounts, v \in Values : GetProof(a, v)
    \/ VerifyProof
    \/ \E i \in 1..MaxInvestors : Reorder(i)

BuilderSpec == BuilderInit /\ [][BuilderNext]_vars

(***************************************************************************)
(* Vocabulary of the properties                                            *)
(***************************************************************************)
LedgerVars == <<claimed, status, balance, log>>

\* the claim flags left by completed transactions: inside a transaction,
\* those it started from
SettledClaimed == IF stack = <<>> THEN claimed ELSE stack[1].entered.claimed

\* number of RefundClaimed events of address a in a log
ClaimEvents(events, a) ==
    Cardinality({i \in 1..Len(events) :
        events[i].name = "RefundClaimed" /\ events[i].user = a})

Top == stack[Len(stack)]
InClaimTransfer == stack # <<>> /\ Top.op = "claimRefund"
InWithdrawTransfer == stack # <<>> /\ Top.op = "withdraw"

ReentrantMsg == "ReentrancyGuard: reentrant call"

\* a step that is a call of claimRefund / withdraw by s (rejected, or taken up
\* to its transfer): every call records itself in last, the clock stands
\* still and no suspended call returns
ClaimCall(s) ==
    /\ last' = Call("claimRefund", s, last'.result)
    /\ now' = now /\ Len(stack') >= Len(stack)
WithdrawCall(s) ==
    /\ last' = Call("withdraw", s, last'.result)
    /\ now' = now /\ Len(stack') >= Len(stack)
\* a step in which the transfer of the innermost suspended call returns
Returns == Len(stack') = Len(stack) - 1

(***************************************************************************)
(* C1  Each address has at most one successful claimRefund.  The flags     *)
(* left by completed transactions only change false->true; a set flag is   *)
(* cleared only by the revert of the very claimRefund call that set it.    *)
(* A claimRefund by an address whose flag is true always fails and changes *)
(* nothing: with "Already claimed" when time <= deadline outside a         *)
(* claimRefund transfer, with "Refund period over" when time > deadline,   *)
(* with the reentrancy-guard error inside a claimRefund transfer.          *)
(***************************************************************************)
C1_OneClaimPerAddress ==
    [][ /\ \A a \in Accounts : SettledClaimed[a] => SettledClaimed'[a]
        /\ log' # log => \A a \in Accounts : ClaimEvents(log', a) <= 1
        /\ \A a \in Accounts : (claimed[a] /\ ~claimed'[a]) =>
              /\ InClaimTransfer /\ Top.sender = a
              /\ last' = Call("claimRefund", a, "Transfer failed")
        /\ \A s \in Accounts :
              (ClaimCall(s) /\ claimed[s]) =>
                 /\ UNCHANGED LedgerVars
                 /\ last'.result =
                      IF status = ENTERED THEN ReentrantMsg
                      ELSE IF now > refundDeadline THEN "Refund period over"
                      ELSE "Already claimed"
      ]_vars

\* C1 as stated: every claimRefund by an address whose flag is true fails
\* with "Already claimed"
C1_Original ==
    [][ /\ \A a \in Accounts : SettledClaimed[a] => SettledClaimed'[a]
        /\ \A s \in Accounts :
              (ClaimCall(s) /\ claimed[s]) => last'.result = "Already claimed"
      ]_vars

\* a second claim of an address that has been paid was rejected
C1_Witness ==
    /\ last = Call("claimRefund", "alice", "Already claimed")
    /\ claimed["alice"] /\ ClaimEvents(log, "alice") = 1
    /\ stack = <<>>

(***************************************************************************)
(* C2  The claimRefund call of a committed address that has not claimed,   *)
(* made with its own proof and exact amount at a time <= deadline (the     *)
(* deadline included), reaches its transfer, and succeeds when the         *)
(* transfer does.  It fails with "Transfer failed", reverted as a whole,   *)
(* when the contract holds less than the amount or the recipient refuses   *)
(* the transfer, and with the reentrancy-guard error when it is made       *)
(* inside the transfer of another claimRefund.                             *)
(***************************************************************************)
C2_ValidClaimSucceeds ==
    [][ /\ \A a \in Committed :
              ( /\ ClaimCall(a) /\ ~claimed[a] /\ now <= refundDeadline
                /\ ClaimRefund(a, ProofOf(a), AmountOf(a)) ) =>
                 IF status = ENTERED
                 THEN last'.result = ReentrantMsg /\ UNCHANGED LedgerVars
                 ELSE IF balance[This] < AmountOf(a)
                 THEN last'.result = "Transfer failed" /\ UNCHANGED LedgerVars
                 ELSE /\ last'.result = "transfer"
                      /\ claimed' = [claimed EXCEPT ![a] = TRUE]
                      /\ balance' = Pay(balance, This, a, AmountOf(a))
        /\ (Returns /\ InClaimTransfer) =>
              \/ /\ last' = Call("claimRefund", Top.sender, "ok")
                 /\ claimed'[Top.sender]
                 /\ UNCHANGED <<claimed, balance>>
                 /\ log' = Append(log, RefundClaimed(Top.sender, Top.amount))
              \/ /\ last' = Call("claimRefund", Top.sender, "Transfer failed")
                 /\ Ledger' = Top.entered
      ]_vars

\* C2 as stated: such a call succeeds
C2_Original ==
    [][ /\ \A a \in Committed :
              ( /\ ClaimCall(a) /\ ~claimed[a] /\ now <= refundDeadline
                /\ ClaimRefund(a, ProofOf(a), AmountOf(a)) ) => last'.result = "transfer"
        /\ (Returns /\ InClaimTransfer) => last'.result = "ok"
      ]_vars

\* a claim made exactly at the deadline has been paid
C2_Witness ==
    /\ last = Call("claimRefund", "bob", "ok")
    /\ now = refundDeadline
    /\ claimed["bob"] /\ balance["bob"] = AmountOf("bob")
    /\ stack = <<>>

(***************************************************************************)
(* C3  Every claimRefund call made when the time is past the deadline      *)
(* fails with "Refund period over", whatever the proof and whether or not  *)
(* the caller has claimed, and leaves claim flags and balances unchanged.  *)
(***************************************************************************)
C3_ClaimAfterDeadlineRejected ==
    [][ \A s \in Accounts :
           (ClaimCall(s) /\ now > refundDeadline) =>
              /\ last'.result = "Refund period over"
              /\ UNCHANGED LedgerVars
      ]_vars

\* a caller that had already claimed was rejected after the deadline with the
\* period-over error
C3_Witness ==
    /\ last = Call("claimRefund", "alice", "Refund period over")
    /\ claimed["alice"]
    /\ now > refundDeadline

\* a call by b with proof p and amount m that does not present b's own entry
Mismatch(b, p, m) ==
    \/ \E a \in Committed \ {b} : p = ProofOf(a)
    \/ b \in Committed /\ m # AmountOf(b)

\* what a rejected mismatching call by b leaves behind
C4_Rejected(b) ==
    /\ UNCHANGED LedgerVars
    /\ last'.result =
         IF status = ENTERED THEN ReentrantMsg
         ELSE IF now > refundDeadline THEN "Refund period over"
         ELSE IF claimed[b] THEN "Already claimed"
         ELSE "Invalid proof"

(***************************************************************************)
(* C4  A claimRefund call by b that supplies the proof generated for       *)
(* another committed address, or an amount other than b's committed        *)
(* amount, never verifies against the stored root: it fails, pays nothing  *)
(* and changes nothing.  The error is "Invalid proof" whenever the call    *)
(* reaches the proof check (time <= deadline, b has not claimed, not       *)
(* inside a claimRefund transfer); otherwise it is the error of the        *)
(* earlier check.                                                          *)
(***************************************************************************)
C4_LeafBoundToCaller ==
    [][ \* the root stored at construction verifies no mismatching leaf
        /\ merkleRoot' # merkleRoot =>
              \A b \in Accounts, p \in Proofs, m \in Amounts :
                 Mismatch(b, p, m) => ~Verify(p, merkleRoot', generateLeaf(b, m))
        \* a claimRefund step by b is such a rejection, or no mismatching
        \* call by b takes it
        /\ \A b \in Accounts : ClaimCall(b) =>
              \/ C4_Rejected(b)
              \/ \A p \in Proofs, m \in Amounts :
                    Mismatch(b, p, m) => ~ClaimRefund(b, p, m)
      ]_vars

\* C4 as stated: such a call fails with "Invalid proof"
C4_Original ==
    [][ \A b \in Accounts : ClaimCall(b) =>
          \A p \in Proofs, m \in Amounts :
             (Mismatch(b, p, m) /\ ClaimRefund(b, p, m)) =>
                /\ last'.result = "Invalid proof"
                /\ UNCHANGED balance
      ]_vars

\* a committed address that could have been paid was rejected for its proof
C4_Witness ==
    /\ last = Call("claimRefund", "bob", "Invalid proof")
    /\ ~claimed["bob"]
    /\ now <= refundDeadline
    /\ balance[This] >= AmountOf("bob")

(***************************************************************************)
(* C5  When the transfer step of claimRefund fails, the call fails with    *)
(* "Transfer failed" and is reverted as a whole: the caller's claim flag   *)
(* is false again afterwards, so a retry is not rejected as already        *)
(* claimed.                                                                *)
(***************************************************************************)
C5_TransferFailureRevertsFlag ==
    [][ /\ (Returns /\ InClaimTransfer /\ last'.result # "ok") =>
              /\ last' = Call("claimRefund", Top.sender, "Transfer failed")
              /\ ~claimed'[Top.sender]
              /\ Ledger' = Top.entered
        /\ \A s \in Accounts :
              (ClaimCall(s) /\ last'.result = "Transfer failed") =>
                 /\ ~claimed'[s]
                 /\ UNCHANGED LedgerVars
      ]_vars

\* C5 as stated: after the failed transfer the caller's claim flag is true
C5_Original ==
    [][ /\ (Returns /\ InClaimTransfer /\ last'.result # "ok") =>
              /\ last' = Call("claimRefund", Top.sender, "Transfer failed")
              /\ claimed'[Top.sender]
        /\ \A s \in Accounts :
              (ClaimCall(s) /\ last'.result = "Transfer failed") => claimed'[s]
      ]_vars

\* the transfer of a claim was refused by the recipient and the claim is
\* undone
C5_Witness ==
    /\ last = Call("claimRefund", "alice", "Transfer failed")
    /\ ~claimed["alice"]
    /\ balance[This] >= AmountOf("alice")
    /\ stack = <<>>

\* the messages of the precondition checks of claimRefund and withdraw
PreconditionErrors ==
    {"Refund period over", "Already claimed", "Invalid proof",
     "Ownable: caller is not the owner", "Refund period not over", "Insufficient funds"}

(***************************************************************************)
(* C6  A claimRefund or withdraw call that fails a precondition (period    *)
(* over, already claimed, invalid proof, unauthorized, period not over,    *)
(* insufficient funds) changes nothing: claim flags, every balance, the    *)
(* root, the deadline, the owner and the event log are as before the call. *)
(***************************************************************************)
C6_AtomicRejection ==
    [][ \A s \in Accounts :
           ((ClaimCall(s) \/ WithdrawCall(s)) /\ last'.result \in PreconditionErrors) =>
              UNCHANGED <<claimed, balance, log, status, merkleRoot, refundDeadline,
                          owner, deployed, stack>>
      ]_vars

\* a withdraw was rejected for insufficient funds after claims had been paid
C6_Witness ==
    /\ last = Call("withdraw", "owner", "Insufficient funds")
    /\ \E a \in Committed : claimed[a]
    /\ log # <<>>

(***************************************************************************)
(* C7  A withdraw call by anyone but the owner fails with the Ownable      *)
(* error in every state, whatever the time and the balance, and no         *)
(* withdraw transfer is ever made to anyone but the address that was the   *)
(* owner when it called.  The owner is the creator until the owner itself  *)
(* hands ownership to another address or renounces it (a revert undoes     *)
(* the change with the call that made it); a former owner is refused like  *)
(* anyone else, and once ownership is renounced every withdraw is refused. *)
(***************************************************************************)
C7_WithdrawOnlyOwner ==
    [][ /\ \A s \in Accounts :
              (WithdrawCall(s) /\ s # owner) =>
                 /\ last'.result = "Ownable: caller is not the owner"
                 /\ UNCHANGED <<claimed, balance, log, status, owner, stack>>
        /\ \A i \in 1..Len(stack') :
              stack'[i].op = "withdraw" => stack'[i].sender = stack'[i].entered.owner
        /\ (deployed /\ owner' # owner) =>
              \/ last' = Call("transferOwnership", owner, "ok") /\ owner' \in Accounts
              \/ last' = Call("renounceOwnership", owner, "ok") /\ owner' = NoAddress
              \/ Returns /\ last'.result = "Transfer failed" /\ owner' = Top.entered.owner
      ]_vars

\* past the deadline, with funds in the contract, the creator was refused
\* after it had handed ownership to alice
C7_Witness ==
    /\ last = Call("withdraw", "owner", "Ownable: caller is not the owner")
    /\ owner = "alice"
    /\ now > refundDeadline
    /\ balance[This] >= AmountOf("alice")

(***************************************************************************)
(* C8  An owner withdraw fails with "Refund period not over" whenever      *)
(* the time is <= the deadline (the deadline included).  When the time     *)
(* is past the deadline and the amount is <= the contract balance it       *)
(* reaches its transfer, and succeeds when the owner's account accepts     *)
(* the transfer; when the owner's account refuses it, the withdraw fails   *)
(* with "Transfer failed" and is reverted.                                 *)
(***************************************************************************)
C8_WithdrawTimeGuard ==
    [][ /\ (WithdrawCall(owner) /\ now <= refundDeadline) =>
              /\ last'.result = "Refund period not over"
              /\ UNCHANGED <<claimed, balance, log, status, stack>>
        /\ \A a \in Amounts :
              ( /\ WithdrawCall(owner) /\ now > refundDeadline /\ a <= balance[This]
                /\ Withdraw(owner, a) ) => last'.result = "transfer"
        /\ (Returns /\ InWithdrawTransfer) =>
              \/ /\ last' = Call("withdraw", Top.sender, "ok")
                 /\ log' = Append(log, FundsWithdrawn(Top.amount))
              \/ /\ last' = Call("withdraw", Top.sender, "Transfer failed")
                 /\ Ledger' = Top.entered
      ]_vars

\* C8 as stated: past the deadline, with the balance sufficient, the owner's
\* withdraw succeeds
C8_Original ==
    [][ /\ (WithdrawCall(owner) /\ now <= refundDeadline) =>
              last'.result = "Refund period not over"
        /\ \A a \in Amounts :
              ( /\ WithdrawCall(owner) /\ now > refundDeadline /\ a <= balance[This]
                /\ Withdraw(owner, a) ) => last'.result = "transfer"
        /\ (Returns /\ InWithdrawTransfer) => last'.result = "ok"
      ]_vars

\* the owner was refused exactly at the deadline, with funds in the contract
C8_Witness ==
    /\ last = Call("withdraw", "owner", "Refund period not over")
    /\ now = refundDeadline
    /\ balance[This] >= TotalCommitted

(***************************************************************************)
(* C9  An owner withdraw past the deadline of more than the contract       *)
(* balance fails with "Insufficient funds".  The transfer of a withdraw    *)
(* of x moves exactly x from the contract to the owner, and neither it     *)
(* nor the completion of the withdraw changes a claim flag.  No balance    *)
(* is ever negative.                                                       *)
(***************************************************************************)
C9_WithdrawAmount ==
    [][ /\ \A a \in Amounts :
              (WithdrawCall(owner) /\ now > refundDeadline /\ Withdraw(owner, a)) =>
                 IF a > balance[This]
                 THEN /\ last'.result = "Insufficient funds"
                      /\ UNCHANGED <<claimed, balance, log, status, stack>>
                 ELSE /\ last'.result = "transfer"
                      /\ balance'[This] = balance[This] - a
                      /\ balance'[owner] = balance[owner] + a
                      /\ \A x \in Accounts \ {owner} : balance'[x] = balance[x]
                      /\ UNCHANGED claimed
        /\ (Returns /\ InWithdrawTransfer /\ last'.result = "ok") =>
              /\ UNCHANGED <<claimed, balance>>
              /\ log' = Append(log, FundsWithdrawn(Top.amount))
        /\ \A x \in Accounts \cup {This} : balance[x] >= 0 /\ balance'[x] >= 0
      ]_vars

\* a withdraw has completed while claims stay recorded
C9_Witness ==
    /\ last = Call("withdraw", "owner", "ok")
    /\ stack = <<>>
    /\ claimed["alice"] /\ ~claimed["bob"]
    /\ log = <<RefundClaimed("alice", AmountOf("alice")), FundsWithdrawn(AmountOf("bob"))>>
    /\ balance["owner"] = TotalCommitted - AmountOf("alice")

\* number of claimRefund calls of address a suspended in their transfer
ClaimFrames(frames, a) ==
    Cardinality({i \in 1..Len(frames) :
        frames[i].op = "claimRefund" /\ frames[i].sender = a})

ClaimPending == \E i \in 1..Len(stack) : stack[i].op = "claimRefund"

\* every claim paid or being paid is of a committed address and its amount
ClaimsExact ==
    /\ \A i \in 1..Len(log) : log[i].name = "RefundClaimed" =>
          log[i].user \in Committed /\ log[i].amount = AmountOf(log[i].user)
    /\ \A i \in 1..Len(stack) : stack[i].op = "claimRefund" =>
          /\ stack[i].sender \in Committed
          /\ stack[i].amount = AmountOf(stack[i].sender)
          /\ claimed[stack[i].sender]
          /\ status = ENTERED

(***************************************************************************)
(* C10  While a claimRefund is in its transfer step the caller's flag is   *)
(* already true and the guard is entered; every claimRefund made from      *)
(* the callback, by any address, is rejected and changes nothing.  So      *)
(* each address is paid by claims at most once, and only its committed     *)
(* amount.                                                                 *)
(***************************************************************************)
C10_ReentrantClaimRejected ==
    [][ \* holds of the empty log and stack; a step that changes neither
        \* the ledger nor the stack keeps it
        /\ \/ UNCHANGED <<claimed, status, balance, log, stack>>
           \/ /\ ClaimsExact'
              /\ \A a \in Accounts :
                    ClaimEvents(log', a) + ClaimFrames(stack', a) <= 1
        /\ \A s \in Accounts :
              (ClaimCall(s) /\ ClaimPending) =>
                 /\ last'.result = ReentrantMsg
                 /\ UNCHANGED <<claimed, balance, log, status, stack>>
      ]_vars

\* from the callback of its own claim, alice called claimRefund again and
\* was rejected
C10_Witness ==
    /\ InClaimTransfer /\ Top.sender = "alice"
    /\ last = Call("claimRefund", "alice", ReentrantMsg)
    /\ claimed["alice"]
    /\ balance[This] >= AmountOf("alice")

(***************************************************************************)
(* C11  The event log only grows by appending, one event per successful    *)
(* operation in the order of completion: RefundClaimed(caller, amount)     *)
(* for a successful claimRefund, and for a successful withdraw an event    *)
(* carrying (owner, amount).  A failing operation leaves in the log        *)
(* nothing of what was appended since it was entered.                      *)
(***************************************************************************)
C11_Original ==
    [][ /\ (Returns /\ last'.result = "ok" /\ InClaimTransfer) =>
              log' = Append(log, RefundClaimed(Top.sender, Top.amount))
        /\ (Returns /\ last'.result = "ok" /\ InWithdrawTransfer) =>
              log' = Append(log, [name |-> "FundsWithdrawn", user |-> Top.sender,
                                  amount |-> Top.amount])
        /\ (Returns /\ last'.result # "ok") => log' = Top.entered.log
        /\ ~Returns => log' = log
      ]_vars

(***************************************************************************)
(* C12  A creation with the all-zero root is rejected and deploys          *)
(* nothing.  A creation with a non-zero root stores that root, sets        *)
(* refundDeadline to the creation time + 90 days (7,776,000 seconds) and   *)
(* makes the creator the owner.  Once the contract is deployed, no         *)
(* claimRefund, withdraw or funding step changes the root or the           *)
(* deadline.                                                               *)
(***************************************************************************)
C12_RootAndDeadlineFixed ==
    [][ /\ \A s \in Deployers, r \in Roots :
              (last'.op = "constructor" /\ Constructor(s, r)) =>
                 IF r = ZeroHash
                 THEN /\ last'.result = "Merkle root cannot be empty"
                      /\ ~deployed'
                      /\ UNCHANGED <<merkleRoot, refundDeadline, owner>>
                 ELSE /\ last'.result = "ok"
                      /\ deployed'
                      /\ merkleRoot' = r
                      /\ refundDeadline' = now + 90 * 24 * 60 * 60
                      /\ refundDeadline' = now + 7776000
                      /\ owner' = s
        /\ deployed => UNCHANGED <<merkleRoot, refundDeadline>>
        /\ deployed' => merkleRoot' # ZeroHash
      ]_vars

\* after claims, a withdraw and a funding transfer past the deadline, the
\* root and the deadline are those set at creation
C12_Witness ==
    /\ deployed
    /\ merkleRoot = getRoot(Tree)
    /\ refundDeadline = StartTime + REFUND_PERIOD_DURATION
    /\ now > refundDeadline
    /\ \E i \in 1..Len(log) : log[i].name = "RefundClaimed"
    /\ Withdrawals(log) > 0
    /\ last = Call("receive", "owner", "ok")

\* the (address, decimal amount) pair is an entry of the table, the amount
\* taken by its scaled value
IsCommitted(address, value) ==
    /\ ~Unparsable(value)
    /\ \E i \in 1..Len(data) :
          /\ data[i].address = address
          /\ ~Unparsable(data[i].tokens)
          /\ ParseUnits(data[i].tokens, Decimals) = ParseUnits(value, Decimals)

Built == merkleTree # NoTree

(***************************************************************************)
(* C13  Round trip: for every entry of every non-empty table, whatever     *)
(* its size (odd sizes, where a node is promoted unpaired, included), the  *)
(* proof that getProof returns for the entry, folded from the entry's      *)
(* leaf with sorted-pair hashing, yields exactly the root of the tree      *)
(* that getMerkle built, and so passes the proof check of claimRefund.     *)
(***************************************************************************)
C13_RoundTrip ==
    (query.op = "verify" /\ IsCommitted(query.address, query.value)) =>
        /\ query.folded = getRoot(merkleTree)
        /\ query.valid
        /\ Len(query.proof) < Len(merkleTree)

\* in a table of three, the proof of the third entry (promoted unpaired at
\* the leaf level) has been checked and is valid
C13_Witness ==
    /\ Len(data) = 3
    /\ query.op = "verify"
    /\ query.address = data[3].address /\ query.value = data[3].tokens
    /\ Len(query.proof) = 1
    /\ query.valid

(***************************************************************************)
(* C14  Order invariance: getMerkle applied to the same entries in two     *)
(* input orders that differ by exchanging the two entries of a sibling     *)
(* pair (positions 2k-1 and 2k) produces the same root; so every order of  *)
(* a table of at most two entries gives the same root.  Exchanging two     *)
(* neighbours of different pairs (positions 2k and 2k+1) changes the       *)
(* root, hashes being collision-free.                                      *)
(***************************************************************************)
C14_PairOrderInvariance ==
    /\ (query.op = "getMerkle again" /\ (query.at % 2 = 1 \/ Len(data) <= 2)) =>
          getRoot(merkleTree) = query.before
    /\ (query.op = "getMerkle again" /\ query.at % 2 = 0) =>
          getRoot(merkleTree) # query.before

\* C14 as stated: any two input orders of the same entries give the same root
C14_Original ==
    query.op = "getMerkle again" => getRoot(merkleTree) = query.before

\* the first two of three entries were exchanged and the root is the same
C14_Witness ==
    /\ query.op = "getMerkle again"
    /\ Len(data) = 3
    /\ query.at = 1
    /\ getRoot(merkleTree) = query.before
    /\ getRoot(merkleTree) # ZeroHash

(***************************************************************************)
(* C15  Single leaf: for a table with exactly one entry the root is the    *)
(* hash of that entry's leaf, the proof of the entry is the empty          *)
(* sequence, and the proof check of a claimRefund made by that address     *)
(* with the empty proof and its amount passes against the root.            *)
(***************************************************************************)
C15_SingleLeaf ==
    (Len(data) = 1 /\ Built) =>
        /\ getRoot(merkleTree) = LeafOf(data[1].address, data[1].tokens)
        /\ (query.op \in {"getProof", "verify"}
              /\ IsCommitted(query.address, query.value)) => query.proof = <<>>
        /\ (query.op = "verify" /\ IsCommitted(query.address, query.value)) =>
              /\ query.valid
              /\ ProofValid(<<>>, getRoot(merkleTree), data[1].address,
                            ParseUnits(data[1].tokens, Decimals))

\* the only entry of a table has been checked with its empty proof
C15_Witness ==
    /\ Len(data) = 1
    /\ query.op = "verify"
    /\ query.address = data[1].address /\ query.value = data[1].tokens
    /\ query.proof = <<>>
    /\ query.valid
    /\ data[1].tokens = Dec(0, <<2>>)
    /\ getRoot(merkleTree) = generateLeaf(data[1].address, 2 * Pow10(Decimals - 1))

(***************************************************************************)
(* C17  getProof called with an (address, amount) pair that is not part    *)
(* of the committed set, the amount being one that parseUnits accepts,     *)
(* does not fail: it returns the empty proof.  That proof does not pass    *)
(* the proof check for the pair against the root of the tree.  (An amount  *)
(* with more fractional digits than the decimals makes parseUnits, and so  *)
(* getProof, throw.)                                                       *)
(***************************************************************************)
C17_UnknownLeafEmptyProof ==
    /\ (query.op \in {"getProof", "verify"}
          /\ ~IsCommitted(query.address, query.value)) =>
              IF Unparsable(query.value)
              THEN query.thrown
              ELSE ~query.thrown /\ query.proof = <<>>
    /\ (query.op = "verify" /\ ~IsCommitted(query.address, query.value)) =>
          ~query.valid /\ query.folded # getRoot(merkleTree)

\* C17 as stated: getProof fails for a pair that is not in the committed set
C17_Original ==
    (query.op = "getProof" /\ Len(data) > 0
       /\ ~IsCommitted(query.address, query.value)) => query.thrown

\* an address of a table of three asked for a proof of another amount than
\* its own: the proof came back empty and did not pass the check
C17_Witness ==
    /\ Len(data) = 3
    /\ query.op = "verify"
    /\ query.address = data[2].address
    /\ ~IsCommitted(query.address, query.value)
    /\ ~query.thrown /\ query.proof = <<>>
    /\ ~query.valid

\* what the RefundClaimed events of a log say was paid to address a
RECURSIVE ClaimedInLog(_, _)
ClaimedInLog(events, a) ==
    IF events = <<>> THEN 0
    ELSE (IF Head(events).name = "RefundClaimed" /\ Head(events).user = a
          THEN Head(events).amount ELSE 0) + ClaimedInLog(Tail(events), a)

\* what the claimRefund calls suspended in their transfer have sent to a
RECURSIVE ClaimedInFlight(_, _)
ClaimedInFlight(frames, a) ==
    IF frames = <<>> THEN 0
    ELSE (IF Head(frames).op = "claimRefund" /\ Head(frames).sender = a
          THEN Head(frames).amount ELSE 0) + ClaimedInFlight(Tail(frames), a)

\* what address a has received through claimRefund
Received(a) == ClaimedInLog(log, a) + ClaimedInFlight(stack, a)

RECURSIVE SumOver(_, _)
SumOver(f, S) ==
    IF S = {} THEN 0 ELSE LET x == CHOOSE y \in S : TRUE IN f[x] + SumOver(f, S \ {x})

\* the total paid out by claims
TotalClaimed == SumOver([a \in Accounts |-> Received(a)], Accounts)

(***************************************************************************)
(* C16  In every reachable state each address has received through         *)
(* claimRefund either nothing or exactly its committed scaled amount,      *)
(* addresses outside the committed set have received nothing, and the      *)
(* total paid out by claims is at most the sum of the committed amounts,   *)
(* and equal to it once every committed address has claimed.  The          *)
(* balance of an address that neither funds nor owns the contract is       *)
(* what it has received through claimRefund.                               *)
(***************************************************************************)
C16_ExactAmounts ==
    /\ \A a \in Committed : Received(a) \in {0, AmountOf(a)}
    /\ \A a \in Committed : Received(a) = IF claimed[a] THEN AmountOf(a) ELSE 0
    /\ \A a \in Accounts \ Committed : Received(a) = 0
    /\ TotalClaimed <= TotalCommitted
    /\ (\A a \in Committed : claimed[a]) => TotalClaimed = TotalCommitted
    /\ \A a \in Accounts \ (Funders \cup Deployers \cup NewOwners) :
          balance[a] = Received(a)

\* every committed address has claimed and the contract is empty
C16_Witness ==
    /\ stack = <<>>
    /\ \A a \in Committed : claimed[a] /\ Received(a) = AmountOf(a)
    /\ TotalClaimed = TotalCommitted
    /\ Len(log) = Cardinality(Committed)
    /\ balance[This] = 0
    /\ balance["bob"] = AmountOf("bob")

\* what the FundsWithdrawn events of a log say was withdrawn
RECURSIVE WithdrawnInLog(_)
WithdrawnInLog(events) ==
    IF events = <<>> THEN 0
    ELSE (IF Head(events).name = "FundsWithdrawn" THEN Head(events).amount ELSE 0)
         + WithdrawnInLog(Tail(events))

\* what the withdraw calls suspended in their transfer have sent
RECURSIVE WithdrawnInFlight(_)
WithdrawnInFlight(frames) ==
    IF frames = <<>> THEN 0
    ELSE (IF Head(frames).op = "withdraw" THEN Head(frames).amount ELSE 0)
         + WithdrawnInFlight(Tail(frames))

TotalWithdrawn == WithdrawnInLog(log) + WithdrawnInFlight(stack)

\* the balances left by completed transactions: inside a transaction, those
\* it started from
SettledBalance == IF stack = <<>> THEN balance ELSE stack[1].entered.balance

\* a step that is a funding transfer by s
FundingStep(s) ==
    /\ last' = Call("receive", s, "ok")
    /\ now' = now /\ stack' = stack
    /\ balance' # balance

(***************************************************************************)
(* C18  The contract balance always equals the total funded (the value     *)
(* taken in by receive(), recorded at each funding transfer) minus the     *)
(* total claimed minus the total withdrawn (both as the events and the     *)
(* transfers in progress say).  A funding transfer is accepted before and  *)
(* after the deadline, increases the balance and the total funded by       *)
(* exactly the value sent and changes no claim flag; nothing else changes  *)
(* the total funded but the revert of a call from whose callback funds     *)
(* were sent.  While time <=                                               *)
(* deadline the balance left by completed transactions decreases only      *)
(* through a successful claimRefund, no withdraw reaches its transfer,     *)
(* and the balance of an account as left by completed transactions grows   *)
(* only by that account's own successful claimRefund, by at most the       *)
(* amount claimed: the owner, whoever it is at the time, cannot extract    *)
(* funds before the deadline.                                              *)
(***************************************************************************)
C18_BalanceAccounting ==
    /\ [](/\ balance[This] = funded - TotalClaimed - TotalWithdrawn
          /\ \A s \in Accounts, v \in Amounts :
                (deployed /\ balance[s] >= v) => ENABLED Receive(s, v))
    /\ [][
        /\ \A s \in Accounts : FundingStep(s) =>
              /\ \E v \in Amounts :
                    /\ balance'[This] = balance[This] + v
                    /\ balance'[s] = balance[s] - v
                    /\ funded' = funded + v
              /\ \A x \in Accounts \ {s} : balance'[x] = balance[x]
              /\ UNCHANGED <<claimed, status, log, merkleRoot, refundDeadline>>
        /\ funded' # funded =>
              \/ \E s \in Accounts : FundingStep(s)
              \/ /\ Returns /\ last'.result = "Transfer failed"
                 /\ funded' = Top.entered.funded
        /\ (deployed /\ now <= refundDeadline) =>
              /\ SettledBalance'[This] < SettledBalance[This] =>
                    /\ Len(stack) = 1 /\ stack' = <<>>
                    /\ last' = Call("claimRefund", Top.sender, "ok")
              /\ balance'[This] < balance[This] =>
                    \/ last'.op = "claimRefund" /\ last'.result = "transfer"
                    \/ Returns /\ last'.result = "Transfer failed"
              /\ \A x \in Accounts : SettledBalance'[x] > SettledBalance[x] =>
                    /\ Len(stack) = 1 /\ stack' = <<>>
                    /\ last' = Call("claimRefund", x, "ok")
                    /\ SettledBalance'[x] <= SettledBalance[x] + Top.amount
              /\ ~InWithdrawTransfer' /\ Withdrawals(log') = 0
      ]_vars

\* funds were sent to the contract after the deadline, after a claim had
\* been paid and a withdraw made
C18_Witness ==
    /\ last = Call("receive", "owner", "ok")
    /\ now > refundDeadline
    /\ stack = <<>>
    /\ TotalClaimed > 0 /\ TotalWithdrawn > 0
    /\ balance[This] > 0
    /\ funded > TotalCommitted
    /\ balance[This] = funded - TotalClaimed - TotalWithdrawn

\* no RefundClaimed event follows a FundsWithdrawn event
ClaimsFirst(events) ==
    \A i, j \in 1..Len(events) :
        (events[i].name = "FundsWithdrawn" /\ events[j].name = "RefundClaimed") => j < i

(***************************************************************************)
(* C19  Time never decreases, and at every instant exactly one of the      *)
(* two time guards (claim: time <= deadline, withdraw: time > deadline)    *)
(* holds.  So in the event log every successful claimRefund precedes       *)
(* every successful withdraw, and once a withdraw has succeeded, or a      *)
(* claim has failed with "Refund period over", the time is past the        *)
(* deadline for good and no claimRefund succeeds again: no claim           *)
(* transfer starts or completes, no flag and no amount received through    *)
(* claims changes.                                                         *)
(***************************************************************************)
C19_ClaimsBeforeWithdrawals ==
    /\ [](deployed =>
            /\ \A t \in {now, refundDeadline - 1, refundDeadline, refundDeadline + 1} :
                  ClaimOpen(t, refundDeadline) <=> ~WithdrawOpen(t, refundDeadline)
            /\ ClaimsFirst(log)
            /\ (Withdrawals(log) > 0 \/ InWithdrawTransfer) => now > refundDeadline
            /\ ClaimPending => now <= refundDeadline)
    /\ [][
        /\ now' >= now
        /\ (last'.result = "Refund period over" /\ last' # last) =>
              now' > refundDeadline'
        /\ (deployed /\ now > refundDeadline) =>
              /\ now' > refundDeadline'
              /\ \A s \in Accounts :
                    ClaimCall(s) => last'.result \in {"Refund period over", ReentrantMsg}
              /\ ~(last'.op = "claimRefund" /\ last'.result \in {"transfer", "ok"}
                     /\ last' # last)
              /\ UNCHANGED claimed
              /\ (log' # log \/ stack' # stack) =>
                    \A a \in Accounts : Received(a)' = Received(a)
      ]_vars

\* after a claim and then a withdraw had succeeded, a committed address that
\* had not claimed was refused with the period-over error
C19_Witness ==
    /\ last = Call("claimRefund", "bob", "Refund period over")
    /\ ~claimed["bob"]
    /\ now > refundDeadline
    /\ stack = <<>>
    /\ Len(log) = 2
    /\ log[1].name = "RefundClaimed" /\ log[2].name = "FundsWithdrawn"
    /\ balance[This] >= AmountOf("bob")

====
